---- MODULE Spec2Model ----
(***************************************************************************)
(* Model of the Yomitan <-> SQLite translator.                             *)
(*                                                                         *)
(*   process.py  imports one or more dictionary archives into the table    *)
(*               `translations` and then builds the index on `word`.       *)
(*   reverse.py  exports the table into a fresh archive, re-chunking the   *)
(*               rows into term banks of CHUNK_SIZE entries.               *)
(*                                                                         *)
(* Three specifications share this module:                                 *)
(*   SpecImport  one run of process.py main()                              *)
(*   SpecExport  one run of reverse.py main()                              *)
(*   SpecGloss   the gloss list of one entry through import then export    *)
(***************************************************************************)
EXTENDS Integers, Sequences, FiniteSets, TLC

(***************************************************************************)
(* Bounds of the model.                                                    *)
(***************************************************************************)
MaxArchives == 3
MaxMembers == 2
MaxEntries == 1

(***************************************************************************)
(* Member names.  A name is modelled by its stem and the number embedded   *)
(* in it: [stem |-> "term_bank", num |-> 10] is term_bank_10.json.  The    *)
(* metadata file index.json has no number.                                 *)
(***************************************************************************)
IndexJson == [stem |-> "index.json", num |-> 0]
TagBank1 == [stem |-> "tag_bank", num |-> 1]
TermBank(n) == [stem |-> "term_bank", num |-> n]
KanjiBank1 == [stem |-> "kanji_bank", num |-> 1]

Names == {IndexJson, TagBank1, TermBank(2), TermBank(10), KanjiBank1}

FILES_TO_SKIP == {IndexJson}
PREFIXES_TO_SKIP == {"tag_bank"}

\* name in FILES_TO_SKIP or name.startswith(PREFIXES_TO_SKIP)
Skipped(name) == name \in FILES_TO_SKIP \/ name.stem \in PREFIXES_TO_SKIP

IsTermBank(name) == name.stem = "term_bank"

\* zip_f.namelist(): the members in the order the archive stores them
NameLists ==
  UNION {{nl \in [1..len -> Names] : \A i, j \in 1..len : i # j => nl[i] # nl[j]}
         : len \in 0..MaxMembers}

(***************************************************************************)
(* What reading one member can do.  "ok" is a JSON array of n well-formed  *)
(* entries; the other kinds are the exception the read raises.             *)
(***************************************************************************)
CaughtErrors == {"BadZipFile", "JSONDecodeError", "sqlite3.Error"}
UncaughtErrors == {"zlib.error", "UnicodeDecodeError", "ValueError", "TypeError"}
ShapeErrors == {"ValueError", "TypeError"}

VARIABLES
  pc,            \* position of process.py main()
  nfiles,        \* len(args.dictionary_files)
  outcome,       \* per archive already handled: what became of it
  namelist,      \* members of the open archive still to be visited
  table,         \* committed rows of `translations`, in insertion order
  pending,       \* rows inserted in the open transaction
  index_count,   \* number of CREATE INDEX translations_index executed
  report,        \* final messages printed on stdout
  decoded,       \* stems of the members json.load was applied to
  xpc,           \* position of reverse.py main()
  chunk_size,    \* CHUNK_SIZE, the configurable size of a term bank
  rows,          \* what the cursor yields, in the order it yields it
  cur,           \* index in rows of the next row of `for row in cur`
  zip_file,      \* what is at zip_path: absent, old, partial, complete
  members,       \* members written to the archive, in writing order
  closed,        \* the archive handle has been closed
  bank_num,
  entries_in_current_bank,
  total_entries_exported,
  gpc,           \* position of one entry on its way in and out
  translation,   \* entry[5], the gloss list of the source entry
  english,       \* the column `english` of the stored row
  translations   \* the gloss list of the exported entry

importVars == <<pc, nfiles, outcome, namelist, table, pending,
                index_count, report, decoded>>

exportVars == <<xpc, chunk_size, rows, cur, zip_file, members, closed,
                bank_num, entries_in_current_bank, total_entries_exported>>

glossVars == <<gpc, translation, english, translations>>

vars == <<importVars, exportVars, glossVars>>

\* The runs are separate processes: while one is modelled the state of the
\* others is idle.
IdleImport ==
  /\ pc = "idle" /\ nfiles = 0 /\ outcome = <<>> /\ namelist = <<>>
  /\ table = <<>> /\ pending = <<>> /\ index_count = 0
  /\ report = <<>> /\ decoded = {}

IdleExport ==
  /\ xpc = "idle" /\ chunk_size = 1 /\ rows = <<>> /\ cur = 1
  /\ zip_file = "absent" /\ members = <<>> /\ closed = FALSE /\ bank_num = 1
  /\ entries_in_current_bank = <<>> /\ total_entries_exported = 0

IdleGloss ==
  /\ gpc = "idle" /\ translation = <<>> /\ english = <<>> /\ translations = <<>>

\* index (1-based) of the archive the loop of main() is at
Pos == Len(outcome) + 1

Row(a, name, k) == [a |-> a, name |-> name, k |-> k]

Outcome(status, cause, entries) ==
  [status |-> status, cause |-> cause, entries |-> entries]

InitImport ==
  /\ pc = "main"
  /\ nfiles \in 1..MaxArchives
  /\ outcome = <<>>
  /\ namelist = <<>>
  /\ table = <<>>
  /\ pending = <<>>
  /\ index_count = 0
  /\ report = <<>>
  /\ decoded = {}
  /\ IdleExport
  /\ IdleGloss

(***************************************************************************)
(* process.py main(), lines 120-142: refuse to overwrite an existing       *)
(* database without --force, remove the old file, create the table.        *)
(***************************************************************************)
Main ==
  /\ pc = "main"
  /\ \E exists, force, created \in BOOLEAN :
       pc' = IF (exists /\ ~force) \/ ~created THEN "refused" ELSE "loop"
  /\ UNCHANGED <<nfiles, outcome, namelist, table, pending,
                 index_count, report, decoded>>
  /\ UNCHANGED <<exportVars, glossVars>>

\* lines 148-151: a path that is not a file is skipped with a warning
SkipMissingFile ==
  /\ pc = "loop"
  /\ Pos <= nfiles
  /\ outcome' = Append(outcome, Outcome("missing", "none", 0))
  /\ UNCHANGED <<pc, nfiles, namelist, table, pending,
                 index_count, report, decoded>>
  /\ UNCHANGED <<exportVars, glossVars>>

\* lines 152, 41-48: open the archive; a broken container raises
\* BadZipFile, which import_dictionary_from_zip catches (lines 84-87)
OpenZip ==
  /\ pc = "loop"
  /\ Pos <= nfiles
  /\ \/ /\ pending' = <<>>
        /\ outcome' = Append(outcome, Outcome("rolledback", "BadZipFile", 0))
        /\ UNCHANGED <<pc, namelist>>
     \/ /\ \E nl \in NameLists : namelist' = nl
              /\ pc' = "zip"
        /\ UNCHANGED <<outcome, pending>>
  /\ UNCHANGED <<nfiles, table, index_count, report, decoded>>
  /\ UNCHANGED <<exportVars, glossVars>>

\* lines 49-52: index.json and tag banks are passed over
SkipMember ==
  /\ pc = "zip"
  /\ namelist # <<>>
  /\ Skipped(Head(namelist))
  /\ namelist' = Tail(namelist)
  /\ UNCHANGED <<pc, nfiles, outcome, table, pending, index_count, report,
                 decoded>>
  /\ UNCHANGED <<exportVars, glossVars>>

\* lines 55-77: the member decodes to n well-formed entries, which are
\* inserted in the open transaction in the order of the array
InsertEntries(name, n) ==
  pending \o [k \in 1..n |-> Row(Pos, name, k)]

\* number of well-formed entries a member can hold: the 6-tuples of a kanji
\* bank have a list in the place of priority, so that only an empty kanji
\* bank passes lines 61-69
EntryCounts(name) == IF IsTermBank(name) THEN 0..MaxEntries ELSE {0}

ImportMember ==
  /\ pc = "zip"
  /\ namelist # <<>>
  /\ ~Skipped(Head(namelist))
  /\ \E n \in EntryCounts(Head(namelist)) :
       pending' = InsertEntries(Head(namelist), n)
  /\ decoded' = decoded \cup {Head(namelist).stem}
  /\ namelist' = Tail(namelist)
  /\ UNCHANGED <<pc, nfiles, outcome, table, index_count, report>>
  /\ UNCHANGED <<exportVars, glossVars>>

\* lines 84-90: BadZipFile, JSONDecodeError and sqlite3.Error are caught
\* inside import_dictionary_from_zip: roll back, return to the loop
MemberCaughtError ==
  /\ pc = "zip"
  /\ namelist # <<>>
  /\ ~Skipped(Head(namelist))
  /\ \E e \in CaughtErrors :
       outcome' = Append(outcome, Outcome("rolledback", e, 0))
  /\ pending' = <<>>
  /\ decoded' = decoded \cup {Head(namelist).stem}
  /\ namelist' = <<>>
  /\ pc' = "loop"
  /\ UNCHANGED <<nfiles, table, index_count, report>>
  /\ UNCHANGED <<exportVars, glossVars>>

\* any other exception leaves import_dictionary_from_zip, leaves the loop,
\* makes `with con` roll back (line 146) and ends the run at line 161
MemberUncaughtError ==
  /\ pc = "zip"
  /\ namelist # <<>>
  /\ ~Skipped(Head(namelist))
  /\ \E e \in UncaughtErrors :
       outcome' = Append(outcome, Outcome("aborted", e, 0))
  /\ pending' = <<>>
  /\ decoded' = decoded \cup {Head(namelist).stem}
  /\ namelist' = <<>>
  /\ pc' = "exit1"
  /\ UNCHANGED <<nfiles, table, index_count, report>>
  /\ UNCHANGED <<exportVars, glossVars>>

\* variant of CommitArchive that maintains the index archive by archive
CommitArchive_IndexPerArchive ==
  /\ pc = "zip"
  /\ namelist = <<>>
  /\ table' = table \o pending
  /\ pending' = <<>>
  /\ outcome' = Append(outcome, Outcome("imported", "none", Len(pending)))
  /\ namelist' = <<>>
  /\ pc' = "loop"
  /\ index_count' = index_count + 1
  /\ UNCHANGED <<nfiles, report, decoded>>
  /\ UNCHANGED <<exportVars, glossVars>>

\* lines 81-82: one commit after all members of the archive
CommitArchive ==
  /\ pc = "zip"
  /\ namelist = <<>>
  /\ table' = table \o pending
  /\ pending' = <<>>
  /\ outcome' = Append(outcome, Outcome("imported", "none", Len(pending)))
  /\ namelist' = <<>>
  /\ pc' = "loop"
  /\ UNCHANGED <<nfiles, index_count, report, decoded>>
  /\ UNCHANGED <<exportVars, glossVars>>

\* lines 154-157: after the loop, CREATE INDEX, then `with con` commits
CreateIndex ==
  /\ pc = "loop"
  /\ Pos > nfiles
  /\ index_count' = index_count + 1
  /\ pc' = "report"
  /\ UNCHANGED <<nfiles, outcome, namelist, table, pending,
                 report, decoded>>
  /\ UNCHANGED <<exportVars, glossVars>>

\* lines 163-164: the closing messages
FinalReport == <<[msg |-> "AllImported"], [msg |-> "SavedTo"]>>

Report ==
  /\ pc = "report"
  /\ report' = FinalReport
  /\ pc' = "done"
  /\ UNCHANGED <<nfiles, outcome, namelist, table, pending,
                 index_count, decoded>>
  /\ UNCHANGED <<exportVars, glossVars>>

NextImport ==
  \/ Main
  \/ SkipMissingFile
  \/ OpenZip
  \/ SkipMember
  \/ ImportMember
  \/ MemberCaughtError
  \/ MemberUncaughtError
  \/ CommitArchive
  \/ CreateIndex
  \/ Report

SpecImport == InitImport /\ [][NextImport]_vars

(***************************************************************************)
(* reverse.py: export of the table into an archive.                        *)
(*                                                                         *)
(* A row is "ok" when english is a string and priority an integer, and     *)
(* "null" when one of the two is NULL, on which line 89 or line 93 raises. *)
(* The exported entry of row i is identified by i, its place in the order  *)
(* the cursor yields the rows.                                             *)
(***************************************************************************)
MaxRows == 5
MaxChunk == 3

RowKinds == {"ok", "null"}

RowSeqs == UNION {[1..len -> RowKinds] : len \in 0..MaxRows}

Member(name, entries) == [name |-> name, entries |-> entries]

InitExport ==
  /\ xpc = "main"
  /\ chunk_size \in 1..MaxChunk
  /\ rows \in RowSeqs
  /\ cur = 1
  /\ zip_file \in {"absent", "old"}
  /\ members = <<>>
  /\ closed = FALSE
  /\ bank_num = 1
  /\ entries_in_current_bank = <<>>
  /\ total_entries_exported = 0
  /\ IdleImport
  /\ IdleGloss

\* reverse.py main(), lines 155-167: an existing output needs --force
ReverseMain ==
  /\ xpc = "main"
  /\ \E force \in BOOLEAN :
       xpc' = IF zip_file # "absent" /\ ~force THEN "refused" ELSE "connect"
  /\ UNCHANGED <<chunk_size, rows, cur, zip_file, members, closed, bank_num,
                 entries_in_current_bank, total_entries_exported>>
  /\ UNCHANGED <<importVars, glossVars>>

\* lines 41-60: the database must exist and answer the SELECT
Connect ==
  /\ xpc = "connect"
  /\ \E ok \in BOOLEAN : xpc' = IF ok THEN "open" ELSE "exit1"
  /\ UNCHANGED <<chunk_size, rows, cur, zip_file, members, closed, bank_num,
                 entries_in_current_bank, total_entries_exported>>
  /\ UNCHANGED <<importVars, glossVars>>

\* line 64: ZipFile(zip_path, 'w') creates or truncates the file at zip_path
OpenArchive ==
  /\ xpc = "open"
  /\ \/ /\ zip_file' = "partial"
        /\ xpc' = "index"
     \/ /\ xpc' = "exit1"
        /\ UNCHANGED zip_file
  /\ UNCHANGED <<chunk_size, rows, cur, members, closed, bank_num,
                 entries_in_current_bank, total_entries_exported>>
  /\ UNCHANGED <<importVars, glossVars>>

\* lines 66-75
WriteIndex ==
  /\ xpc = "index"
  /\ members' = Append(members, Member(IndexJson, <<>>))
  /\ xpc' = "tag"
  /\ UNCHANGED <<chunk_size, rows, cur, zip_file, closed, bank_num,
                 entries_in_current_bank, total_entries_exported>>
  /\ UNCHANGED <<importVars, glossVars>>

\* variant of WriteTagBank that leaves the tag file out
WriteTagBank_Omitted ==
  /\ xpc = "tag"
  /\ bank_num' = 1
  /\ entries_in_current_bank' = <<>>
  /\ total_entries_exported' = 0
  /\ xpc' = "rows"
  /\ UNCHANGED <<chunk_size, rows, cur, zip_file, closed, members>>
  /\ UNCHANGED <<importVars, glossVars>>

\* lines 78-83
WriteTagBank ==
  /\ xpc = "tag"
  /\ members' = Append(members, Member(TagBank1, <<>>))
  /\ bank_num' = 1
  /\ entries_in_current_bank' = <<>>
  /\ total_entries_exported' = 0
  /\ xpc' = "rows"
  /\ UNCHANGED <<chunk_size, rows, cur, zip_file, closed>>
  /\ UNCHANGED <<importVars, glossVars>>

\* variant of BankFull with > for >=
BankFull_Strict(bank) == Len(bank) > chunk_size

\* line 97: len(entries_in_current_bank) >= CHUNK_SIZE
BankFull(bank) == Len(bank) >= chunk_size

\* lines 85-105: one iteration of `for row in cur`
ExportRow ==
  /\ xpc = "rows"
  /\ cur <= Len(rows)
  /\ rows[cur] = "ok"
  /\ LET bank == Append(entries_in_current_bank, cur)
     IN  IF BankFull(bank)
         THEN /\ members' = Append(members, Member(TermBank(bank_num), bank))
              /\ bank_num' = bank_num + 1
              /\ entries_in_current_bank' = <<>>
         ELSE /\ entries_in_current_bank' = bank
              /\ UNCHANGED <<members, bank_num>>
  /\ total_entries_exported' = total_entries_exported + 1
  /\ cur' = cur + 1
  /\ UNCHANGED <<xpc, chunk_size, rows, zip_file, closed>>
  /\ UNCHANGED <<importVars, glossVars>>

\* lines 89, 93: a NULL english or priority raises AttributeError or
\* TypeError, which line 118 does not catch; the `with` closes the archive
\* and the file stays at zip_path
RowError ==
  /\ xpc = "rows"
  /\ cur <= Len(rows)
  /\ rows[cur] = "null"
  /\ closed' = TRUE
  /\ xpc' = "crash"
  /\ UNCHANGED <<chunk_size, rows, cur, zip_file, members, bank_num,
                 entries_in_current_bank, total_entries_exported>>
  /\ UNCHANGED <<importVars, glossVars>>

\* the step the export is about to take writes to the archive
WritePending ==
  \/ xpc \in {"index", "tag", "close"}
  \/ /\ xpc = "rows"
     /\ cur <= Len(rows)
     /\ rows[cur] = "ok"
     /\ BankFull(Append(entries_in_current_bank, cur))
  \/ /\ xpc = "rows"
     /\ cur > Len(rows)
     /\ entries_in_current_bank # <<>>

\* lines 118-122: a write fails with IOError; the `with` closes the archive,
\* the run exits with status 1 and the file stays at zip_path
WriteError ==
  /\ WritePending
  /\ closed' = TRUE
  /\ xpc' = "exit1"
  /\ UNCHANGED <<chunk_size, rows, cur, zip_file, members, bank_num,
                 entries_in_current_bank, total_entries_exported>>
  /\ UNCHANGED <<importVars, glossVars>>

\* lines 107-114: the last, incomplete bank
FlushLast ==
  /\ xpc = "rows"
  /\ cur > Len(rows)
  /\ members' = IF entries_in_current_bank # <<>>
                THEN Append(members,
                            Member(TermBank(bank_num), entries_in_current_bank))
                ELSE members
  /\ xpc' = "close"
  /\ UNCHANGED <<chunk_size, rows, cur, zip_file, closed, bank_num,
                 entries_in_current_bank, total_entries_exported>>
  /\ UNCHANGED <<importVars, glossVars>>

\* end of the `with` of line 64, lines 116, 122, 169-170
CloseArchive ==
  /\ xpc = "close"
  /\ closed' = TRUE
  /\ zip_file' = "complete"
  /\ xpc' = "done"
  /\ UNCHANGED <<chunk_size, rows, cur, members, bank_num,
                 entries_in_current_bank, total_entries_exported>>
  /\ UNCHANGED <<importVars, glossVars>>

NextExport ==
  \/ ReverseMain
  \/ Connect
  \/ OpenArchive
  \/ WriteIndex
  \/ WriteTagBank
  \/ ExportRow
  \/ RowError
  \/ WriteError
  \/ FlushLast
  \/ CloseArchive

SpecExport == InitExport /\ [][NextExport]_vars

(***************************************************************************)
(* The gloss list of one entry: joined with "; " on import (process.py     *)
(* line 68), split on "; " on export (reverse.py line 89).  A string is a  *)
(* sequence of characters; "a" stands for any character other than ";" and *)
(* " ".                                                                    *)
(***************************************************************************)
MaxGlosses == 2
MaxGlossLen == 2

Alphabet == {";", " ", "a"}

Strings == UNION {[1..len -> Alphabet] : len \in 0..MaxGlossLen}

GlossLists == UNION {[1..len -> Strings] : len \in 0..MaxGlosses}

Sep == <<";", " ">>

\* sep.join(list)
RECURSIVE Join(_, _)
Join(sep, list) ==
  IF list = <<>> THEN <<>>
  ELSE IF Len(list) = 1 THEN list[1]
  ELSE list[1] \o sep \o Join(sep, Tail(list))

\* s.find(sep) + 1: the leftmost occurrence of sep in s, 0 when none
Find(s, sep) ==
  LET hits == {i \in 1..(Len(s) - Len(sep) + 1) :
                 SubSeq(s, i, i + Len(sep) - 1) = sep}
  IN  IF hits = {} THEN 0 ELSE CHOOSE i \in hits : \A j \in hits : i <= j

\* s.split(sep): cut at the occurrences of sep, leftmost first; a string
\* without sep, the empty string included, gives the one-element list [s]
RECURSIVE Split(_, _)
Split(s, sep) ==
  LET i == Find(s, sep)
  IN  IF i = 0 THEN <<s>>
      ELSE <<SubSeq(s, 1, i - 1)>> \o Split(SubSeq(s, i + Len(sep), Len(s)), sep)

InitGloss ==
  /\ gpc = "entry"
  /\ translation \in GlossLists
  /\ english = <<>>
  /\ translations = <<>>
  /\ IdleImport
  /\ IdleExport

\* process.py lines 63-69: the row keeps '; '.join(translation)
StoreEntry ==
  /\ gpc = "entry"
  /\ english' = Join(Sep, translation)
  /\ gpc' = "stored"
  /\ UNCHANGED <<translation, translations>>
  /\ UNCHANGED <<importVars, exportVars>>

\* reverse.py lines 86-93: the entry gets english_str.split('; ')
ExportEntry ==
  /\ gpc = "stored"
  /\ translations' = Split(english, Sep)
  /\ gpc' = "exported"
  /\ UNCHANGED <<translation, english>>
  /\ UNCHANGED <<importVars, exportVars>>

NextGloss ==
  \/ StoreEntry
  \/ ExportEntry

SpecGloss == InitGloss /\ [][NextGloss]_vars

(***************************************************************************)
(* Properties.                                                             *)
(***************************************************************************)

\* the term banks of the archive, in the order they were written
Shards == SelectSeq(members, LAMBDA m : IsTermBank(m.name))

RECURSIVE Flatten(_)
Flatten(shards) ==
  IF shards = <<>> THEN <<>> ELSE shards[1].entries \o Flatten(Tail(shards))

Ceil(l, c) == (l + c - 1) \div c

\* C1: the export of L rows with chunk size C writes the term banks
\* term_bank_1 .. term_bank_ceil(L/C) without a gap and never an empty one;
\* every bank holds C entries except possibly the last of a finished export,
\* which holds L mod C (C when L mod C = 0); the banks, taken in ascending
\* number, hold the rows in the order of the cursor.
C1_Chunking ==
  LET sh == Shards
      all == Flatten(sh)
      L == Len(rows)
      C == chunk_size
  IN  /\ \A k \in 1..Len(sh) :
           /\ sh[k].name = TermBank(k)
           /\ sh[k].entries # <<>>
           /\ (k < Len(sh) \/ xpc = "rows") => Len(sh[k].entries) = C
           /\ Len(sh[k].entries) <= C
      /\ all = [i \in 1..Len(all) |-> i]
      /\ Len(all) <= L
      /\ xpc \in {"close", "done"} =>
           /\ Len(sh) = Ceil(L, C)
           /\ Len(all) = L
           /\ L > 0 => Len(sh[Len(sh)].entries) = (IF L % C = 0 THEN C ELSE L % C)

\* a finished export of several banks, the last one partial
C1_Witness ==
  /\ xpc = "done"
  /\ Len(Shards) >= 2
  /\ Len(rows) % chunk_size # 0

\* number of rows, committed or not, that archive a put in the table
RowsOf(a) ==
  Cardinality({p \in 1..Len(table \o pending) : (table \o pending)[p].a = a})

\* the causes that make an archive corrupt: an unreadable container or a
\* shard that is not valid JSON
Corruptions == {"BadZipFile", "zlib.error", "JSONDecodeError", "UnicodeDecodeError"}

\* C2: in a run whose archives are each either intact or corrupt, a corrupt
\* archive contributes no row, every other archive contributes all of its
\* entries, and the run is not aborted.
C2_ArchiveIsolation ==
  (\A i \in 1..Len(outcome) : outcome[i].cause \in Corruptions \cup {"none"})
  => /\ pc # "exit1"
     /\ \A i \in 1..Len(outcome) :
          /\ outcome[i].cause \in Corruptions => RowsOf(i) = 0
          /\ outcome[i].status = "imported" => RowsOf(i) = outcome[i].entries

\* archives whose import was rolled back
Failed == {i \in 1..Len(outcome) : outcome[i].status = "rolledback"}

\* C3: when k > 0 archives failed, the final report states k failures and
\* does not announce that all archives were imported.
C3_FailureCount ==
  (pc = "done" /\ Failed # {}) =>
    /\ \E j \in 1..Len(report) :
         /\ report[j].msg = "FailedArchives"
         /\ report[j].count = Cardinality(Failed)
    /\ \A j \in 1..Len(report) : report[j].msg # "AllImported"

\* s occurs in g
Contains(g, s) == Find(g, s) # 0

\* C4: the exported gloss list equals the imported one if and only if no
\* gloss contains "; "; the empty list comes back as the empty list.
C4_GlossRoundTrip ==
  gpc = "exported" =>
    ((translations = translation)
       <=> (\A k \in 1..Len(translation) : ~Contains(translation[k], Sep)))

\* C5: an export that fails after it started writing leaves no file at the
\* output path; a complete archive holds every row.
C5_AllOrNothing ==
  /\ xpc \in {"exit1", "crash"} => zip_file # "partial"
  /\ zip_file = "complete" => Len(Flatten(Shards)) = Len(rows)

\* C6: a shard of the wrong shape makes its archive roll back and the run
\* go on, as a shard that is not valid JSON does.
C6_ShapeErrorIsolated ==
  \A i \in 1..Len(outcome) :
    outcome[i].cause \in ShapeErrors =>
      /\ outcome[i].status = "rolledback"
      /\ pc # "exit1"

\* C7: the index is created at most once, only after the last archive has
\* been processed, no row is inserted after it, and a run that gets through
\* all of its archives creates it exactly once.
C7_IndexOnce ==
  /\ [](index_count <= 1)
  /\ [](index_count >= 1 =>
          /\ Pos > nfiles
          /\ pending = <<>>
          /\ \A i \in 1..Len(outcome) :
               outcome[i].status \in {"missing", "imported", "rolledback"})
  /\ [](pc \in {"report", "done"} => index_count = 1)
  /\ [][index_count >= 1 => table' = table /\ pending' = pending]_vars

\* a finished run over several archives, one imported and one rolled back
C7_Witness ==
  /\ pc = "done"
  /\ index_count = 1
  /\ table # <<>>
  /\ Failed # {}

\* the states of the archive writer
Phase ==
  CASE xpc \in {"main", "connect", "open"} -> 1    \* INIT
    [] xpc \in {"index", "tag"} -> 2               \* COPYING_METADATA
    [] xpc \in {"rows", "close"} -> 3              \* EMITTING_SHARDS
    [] xpc = "done" -> 4                           \* FINALIZED
    [] OTHER -> 5                                  \* the export failed

\* C8: an export goes INIT, COPYING_METADATA, EMITTING_SHARDS, FINALIZED
\* without skipping a state (it may fail from any of them); index.json is
\* the first member and tag_bank_1.json the second, each written once and
\* before any term bank, with or without rows; nothing is written to a
\* closed archive.
C8_Phases ==
  /\ [][Phase' # Phase => (Phase' = Phase + 1 \/ Phase' = 5)]_vars
  /\ [](\A k \in 1..Len(members) :
          /\ members[k].name = IndexJson <=> k = 1
          /\ members[k].name = TagBank1 <=> k = 2
          /\ IsTermBank(members[k].name) <=> k >= 3)
  /\ [](Phase \in {3, 4} => Len(members) >= 2)
  /\ [](Phase = 4 => closed)
  /\ [][closed => (closed' /\ members' = members)]_vars

\* a finished export of an empty table: the two metadata members only
C8_Witness ==
  /\ xpc = "done"
  /\ rows = <<>>
  /\ Len(members) = 2
  /\ closed

\* C9: only term banks are decoded as entries and give rows.
C9_OnlyTermBanks ==
  /\ decoded \subseteq {"term_bank"}
  /\ \A p \in 1..Len(table \o pending) : IsTermBank((table \o pending)[p].name)

\* C10: within an archive the rows of term_bank_N are inserted before the
\* rows of term_bank_M whenever N < M.
C10_NumericOrder ==
  LET rs == table \o pending
  IN  \A p, q \in 1..Len(rs) :
        (p < q /\ rs[p].a = rs[q].a /\ IsTermBank(rs[p].name) /\ IsTermBank(rs[q].name))
          => rs[p].name.num <= rs[q].name.num

====
